---- MODULE Spec2Model ----
(***************************************************************************)
(* Carbon Chase: the production-selection engine of CarbonChaseGame         *)
(* (src/carbchase.py) together with the part of the event loop that drives  *)
(* it.  The object's attributes are the variables; every event handler of   *)
(* run() / draw_game_over() that touches them is one action.  The methods   *)
(* are operators on a record `s` holding the attributes, so that a handler  *)
(* is the composition of the method calls the code makes.                   *)
(*                                                                          *)
(* current_product only selects which option buttons are on screen: a tab   *)
(* click is enabled whenever an option click is and changes nothing else,   *)
(* so the option click carries the product of the tab that is open.         *)
(* start_budget, fines and last_return are history variables: the budget    *)
(* drawn by the last reset, the fines charged since, and the value returned *)
(* by the last call of select_process_option.                               *)
(*                                                                          *)
(* Strings that the code splits or compares are modelled structurally: an   *)
(* option name is the tuple of its lines (the key "Local\nSeasonal" is      *)
(* <<"Local", "Seasonal">>), a button text is the tuple of the lines of the *)
(* text.  info_message is a tuple whose head is the fixed part of the       *)
(* message and whose tail holds the interpolated values.                    *)
(***************************************************************************)
EXTENDS Integers, Sequences, FiniteSets, TLC

VARIABLES budget, current_emissions, current_happiness, emission_warnings,
          game_state, player_choices, info_message,
          MAX_EMISSION_THRESHOLD, SEVERE_EMISSION_THRESHOLD,
          WARNING_EMISSION_THRESHOLD,
          start_budget, fines, last_return

vars == <<budget, current_emissions, current_happiness, emission_warnings,
          game_state, player_choices, info_message,
          MAX_EMISSION_THRESHOLD, SEVERE_EMISSION_THRESHOLD,
          WARNING_EMISSION_THRESHOLD,
          start_budget, fines, last_return>>

(***************************************************************************)
(* Bounds of the model.                                                     *)
(***************************************************************************)
\* how many of the budgets of BudgetSamples random.randint may return
NumBudgets == 3
\* how many of the option buttons of Buttons the player clicks
NumButtons == 11

(***************************************************************************)
(* Program constants.                                                       *)
(***************************************************************************)
BASE_EMISSION_THRESHOLD == 5000
MIN_HAPPINESS_THRESHOLD == 40

budget_levels == <<"Struggling Startup", "Small Business", "Growing Company",
                   "Established Firm", "Corporate Giant">>

budget_ranges ==
    "Struggling Startup" :> <<3000, 6000>> @@
    "Small Business" :> <<5000, 9000>> @@
    "Growing Company" :> <<8000, 15000>> @@
    "Established Firm" :> <<12000, 20000>> @@
    "Corporate Giant" :> <<18000, 30000>>

\* load_processes: option name (tuple of lines) -> attributes; the info text
\* of an option is identified by the option itself.
processes ==
    "Pizza" :> (
        "Ingredient Sourcing" :> (
            <<"Conventional">> :> [cost |-> 800, emissions |-> 1000, efficiency |-> 2, happiness |-> 2] @@
            <<"Organic">> :> [cost |-> 1200, emissions |-> 600, efficiency |-> 3, happiness |-> 3] @@
            <<"Local", "Seasonal">> :> [cost |-> 1000, emissions |-> 300, efficiency |-> 4, happiness |-> 4] @@
            <<"Plant Based">> :> [cost |-> 1100, emissions |-> 350, efficiency |-> 4, happiness |-> 3]) @@
        "Dough Preparation" :> (
            <<"Mass Produced">> :> [cost |-> 600, emissions |-> 500, efficiency |-> 3, happiness |-> 2] @@
            <<"Handmade">> :> [cost |-> 1000, emissions |-> 200, efficiency |-> 4, happiness |-> 4]) @@
        "Baking" :> (
            <<"Gas Oven">> :> [cost |-> 800, emissions |-> 1200, efficiency |-> 3, happiness |-> 3] @@
            <<"Wood Fired">> :> [cost |-> 1000, emissions |-> 800, efficiency |-> 4, happiness |-> 4] @@
            <<"Solar">> :> [cost |-> 1500, emissions |-> 50, efficiency |-> 5, happiness |-> 3]) @@
        "Packaging" :> (
            <<"Plastic">> :> [cost |-> 300, emissions |-> 800, efficiency |-> 5, happiness |-> 2] @@
            <<"Biodegradable">> :> [cost |-> 700, emissions |-> 300, efficiency |-> 4, happiness |-> 4])) @@
    "E-Bike" :> (
        "Battery Production" :> (
            <<"Lithium Mining">> :> [cost |-> 2000, emissions |-> 4500, efficiency |-> 5, happiness |-> 3] @@
            <<"Recycled Batteries">> :> [cost |-> 1800, emissions |-> 1800, efficiency |-> 4, happiness |-> 4]) @@
        "Frame Production" :> (
            <<"Aluminum">> :> [cost |-> 1500, emissions |-> 3000, efficiency |-> 4, happiness |-> 3] @@
            <<"Carbon Fiber">> :> [cost |-> 2500, emissions |-> 1500, efficiency |-> 5, happiness |-> 5]) @@
        "Assembly" :> (
            <<"Manual">> :> [cost |-> 1200, emissions |-> 1000, efficiency |-> 4, happiness |-> 4] @@
            <<"Automated">> :> [cost |-> 2000, emissions |-> 500, efficiency |-> 5, happiness |-> 3])) @@
    "Smartphone" :> (
        "Component Production" :> (
            <<"Outsource">> :> [cost |-> 1500, emissions |-> 3000, efficiency |-> 4, happiness |-> 3] @@
            <<"In-House">> :> [cost |-> 2500, emissions |-> 1500, efficiency |-> 5, happiness |-> 4]) @@
        "Distribution" :> (
            <<"Air Freight">> :> [cost |-> 2000, emissions |-> 4000, efficiency |-> 5, happiness |-> 4] @@
            <<"Sea Freight">> :> [cost |-> 1500, emissions |-> 2000, efficiency |-> 4, happiness |-> 3]))

Products == DOMAIN processes

\* the dictionary order of the (product, process) pairs, as the nested loops
\* of calculate_happiness and the all(...) generators visit them
Slots ==
    << <<"Pizza", "Ingredient Sourcing">>, <<"Pizza", "Dough Preparation">>,
       <<"Pizza", "Baking">>, <<"Pizza", "Packaging">>,
       <<"E-Bike", "Battery Production">>, <<"E-Bike", "Frame Production">>,
       <<"E-Bike", "Assembly">>,
       <<"Smartphone", "Component Production">>, <<"Smartphone", "Distribution">> >>

\* Python's None
None == <<>>

(***************************************************************************)
(* Arithmetic of the code.                                                  *)
(***************************************************************************)
\* math.ceil of the exact quotient a / b, b > 0
CeilDiv(a, b) == -((-a) \div b)

\* The budgets in 3000..30000 for which the double-precision product
\* 5000 * (budget / 10000) * 1.2 lands just above the integer 6 * budget / 10,
\* so that math.ceil returns one more than the exact ceiling; each entry is
\* <<first, last, step>> of an arithmetic run of such budgets.
FloatExcessRuns ==
    { <<3385, 3410, 5>>, <<5520, 5620, 10>>, <<6145, 6245, 10>>, <<6770, 6820, 10>>,
      <<10415, 10615, 20>>, <<11040, 11240, 20>>, <<11665, 11865, 20>>,
      <<12290, 12490, 20>>, <<12915, 13115, 20>>, <<13540, 13640, 20>>,
      <<20205, 20605, 40>>, <<20830, 21230, 40>>, <<21455, 21855, 40>>,
      <<22080, 22480, 40>>, <<22705, 23105, 40>>, <<23330, 23730, 40>>,
      <<23955, 24355, 40>>, <<24580, 24980, 40>>, <<25205, 25605, 40>>,
      <<25830, 26230, 40>>, <<26455, 26855, 40>>, <<27080, 27280, 40>> }

FloatExcess(b) ==
    IF \E r \in FloatExcessRuns : r[1] <= b /\ b <= r[2] /\ (b - r[1]) % r[3] = 0
    THEN 1 ELSE 0

\* ceil(self.budget * 0.05) and ceil(self.budget * 0.10): for every integer
\* budget in 0..30000 the double product rounds to the exact ceiling
FineOf(b, percent) == CeilDiv(b * percent, 100)

(***************************************************************************)
(* Methods of CarbonChaseGame, as operators on the record of attributes.    *)
(***************************************************************************)
calculate_dynamic_thresholds(s) ==
    LET max == CeilDiv(BASE_EMISSION_THRESHOLD * s.budget * 12, 10000 * 10)
               + FloatExcess(s.budget)
    IN  [s EXCEPT !.MAX_EMISSION_THRESHOLD = max,
                  !.SEVERE_EMISSION_THRESHOLD = CeilDiv(max * 7, 10),
                  !.WARNING_EMISSION_THRESHOLD = CeilDiv(max * 5, 10)]


\* game_over setting the message and leaving game_state as it is
game_over_MessageOnly(s, message) ==
    [s EXCEPT !.info_message = message]

game_over(s, message) ==
    [s EXCEPT !.game_state = "game_over", !.info_message = message]

\* check_emission_warnings charging the 10% fine at every stage from 2 on
check_emission_warnings_FinesAgain(s) ==
    IF s.current_emissions > s.SEVERE_EMISSION_THRESHOLD /\ s.emission_warnings < 4
    THEN game_over([s EXCEPT !.emission_warnings = 4], <<"Production halted!">>)
    ELSE IF s.current_emissions > s.WARNING_EMISSION_THRESHOLD
    THEN CASE s.emission_warnings = 0 ->
                [s EXCEPT !.emission_warnings = 1,
                          !.info_message = <<"WARNING (1st warning)">>]
           [] s.emission_warnings = 1 ->
                [s EXCEPT !.emission_warnings = 2,
                          !.budget = s.budget - FineOf(s.budget, 5),
                          !.fines = Append(s.fines, <<5, FineOf(s.budget, 5)>>),
                          !.info_message = <<"WARNING (2nd warning)", FineOf(s.budget, 5)>>]
           [] s.emission_warnings \in {2, 3} ->
                [s EXCEPT !.emission_warnings = 3,
                          !.budget = s.budget - FineOf(s.budget, 10),
                          !.fines = Append(s.fines, <<10, FineOf(s.budget, 10)>>),
                          !.info_message = <<"SEVERE WARNING (3rd warning)", FineOf(s.budget, 10)>>]
           [] OTHER -> s
    ELSE s

\* check_emission_warnings without the call of game_over in the severe branch
check_emission_warnings_NoHalt(s) ==
    IF s.current_emissions > s.SEVERE_EMISSION_THRESHOLD /\ s.emission_warnings < 4
    THEN [s EXCEPT !.emission_warnings = 4]
    ELSE IF s.current_emissions > s.WARNING_EMISSION_THRESHOLD
    THEN CASE s.emission_warnings = 0 ->
                [s EXCEPT !.emission_warnings = 1,
                          !.info_message = <<"WARNING (1st warning)">>]
           [] s.emission_warnings = 1 ->
                [s EXCEPT !.emission_warnings = 2,
                          !.budget = s.budget - FineOf(s.budget, 5),
                          !.fines = Append(s.fines, <<5, FineOf(s.budget, 5)>>),
                          !.info_message = <<"WARNING (2nd warning)", FineOf(s.budget, 5)>>]
           [] s.emission_warnings = 2 ->
                [s EXCEPT !.emission_warnings = 3,
                          !.budget = s.budget - FineOf(s.budget, 10),
                          !.fines = Append(s.fines, <<10, FineOf(s.budget, 10)>>),
                          !.info_message = <<"SEVERE WARNING (3rd warning)", FineOf(s.budget, 10)>>]
           [] OTHER -> s
    ELSE s


\* check_emission_warnings charging the 5% fine with the first warning already
check_emission_warnings_FinesFirst(s) ==
    IF s.current_emissions > s.SEVERE_EMISSION_THRESHOLD /\ s.emission_warnings < 4
    THEN game_over([s EXCEPT !.emission_warnings = 4], <<"Production halted!">>)
    ELSE IF s.current_emissions > s.WARNING_EMISSION_THRESHOLD
    THEN CASE s.emission_warnings = 0 ->
                [s EXCEPT !.emission_warnings = 1,
                          !.budget = s.budget - FineOf(s.budget, 5),
                          !.info_message = <<"WARNING (1st warning)">>]
           [] s.emission_warnings = 1 ->
                [s EXCEPT !.emission_warnings = 2,
                          !.budget = s.budget - FineOf(s.budget, 5),
                          !.fines = Append(s.fines, <<5, FineOf(s.budget, 5)>>),
                          !.info_message = <<"WARNING (2nd warning)", FineOf(s.budget, 5)>>]
           [] s.emission_warnings = 2 ->
                [s EXCEPT !.emission_warnings = 3,
                          !.budget = s.budget - FineOf(s.budget, 10),
                          !.fines = Append(s.fines, <<10, FineOf(s.budget, 10)>>),
                          !.info_message = <<"SEVERE WARNING (3rd warning)", FineOf(s.budget, 10)>>]
           [] OTHER -> s
    ELSE s


\* check_emission_warnings computing both fines on the budget drawn at the
\* start of the session
check_emission_warnings_FineOnStart(s) ==
    IF s.current_emissions > s.SEVERE_EMISSION_THRESHOLD /\ s.emission_warnings < 4
    THEN game_over([s EXCEPT !.emission_warnings = 4], <<"Production halted!">>)
    ELSE IF s.current_emissions > s.WARNING_EMISSION_THRESHOLD
    THEN CASE s.emission_warnings = 0 ->
                [s EXCEPT !.emission_warnings = 1,
                          !.info_message = <<"WARNING (1st warning)">>]
           [] s.emission_warnings = 1 ->
                LET fine == FineOf(s.start_budget, 5)
                IN  [s EXCEPT !.emission_warnings = 2,
                              !.budget = s.budget - fine,
                              !.fines = Append(s.fines, <<5, fine>>),
                              !.info_message = <<"WARNING (2nd warning)", fine>>]
           [] s.emission_warnings = 2 ->
                LET fine == FineOf(s.start_budget, 10)
                IN  [s EXCEPT !.emission_warnings = 3,
                              !.budget = s.budget - fine,
                              !.fines = Append(s.fines, <<10, fine>>),
                              !.info_message = <<"SEVERE WARNING (3rd warning)", fine>>]
           [] OTHER -> s
    ELSE s

\* check_emission_warnings taking the warnings back when the emissions are at
\* or below the warning threshold
check_emission_warnings_Decays(s) ==
    IF s.current_emissions > s.SEVERE_EMISSION_THRESHOLD /\ s.emission_warnings < 4
    THEN game_over([s EXCEPT !.emission_warnings = 4], <<"Production halted!">>)
    ELSE IF s.current_emissions > s.WARNING_EMISSION_THRESHOLD
    THEN CASE s.emission_warnings = 0 ->
                [s EXCEPT !.emission_warnings = 1,
                          !.info_message = <<"WARNING (1st warning)">>]
           [] s.emission_warnings = 1 ->
                LET fine == FineOf(s.budget, 5)
                IN  [s EXCEPT !.emission_warnings = 2,
                              !.budget = s.budget - fine,
                              !.fines = Append(s.fines, <<5, fine>>),
                              !.info_message = <<"WARNING (2nd warning)", fine>>]
           [] s.emission_warnings = 2 ->
                LET fine == FineOf(s.budget, 10)
                IN  [s EXCEPT !.emission_warnings = 3,
                              !.budget = s.budget - fine,
                              !.fines = Append(s.fines, <<10, fine>>),
                              !.info_message = <<"SEVERE WARNING (3rd warning)", fine>>]
           [] OTHER -> s
    ELSE [s EXCEPT !.emission_warnings = 0]

\* check_emission_warnings charging the 10% fine when production is halted
check_emission_warnings_HaltFines(s) ==
    IF s.current_emissions > s.SEVERE_EMISSION_THRESHOLD /\ s.emission_warnings < 4
    THEN game_over([s EXCEPT !.emission_warnings = 4,
                             !.budget = s.budget - FineOf(s.budget, 10),
                             !.fines = Append(s.fines, <<10, FineOf(s.budget, 10)>>)],
                   <<"Production halted!">>)
    ELSE IF s.current_emissions > s.WARNING_EMISSION_THRESHOLD
    THEN CASE s.emission_warnings = 0 ->
                [s EXCEPT !.emission_warnings = 1,
                          !.info_message = <<"WARNING (1st warning)">>]
           [] s.emission_warnings = 1 ->
                LET fine == FineOf(s.budget, 5)
                IN  [s EXCEPT !.emission_warnings = 2,
                              !.budget = s.budget - fine,
                              !.fines = Append(s.fines, <<5, fine>>),
                              !.info_message = <<"WARNING (2nd warning)", fine>>]
           [] s.emission_warnings = 2 ->
                LET fine == FineOf(s.budget, 10)
                IN  [s EXCEPT !.emission_warnings = 3,
                              !.budget = s.budget - fine,
                              !.fines = Append(s.fines, <<10, fine>>),
                              !.info_message = <<"SEVERE WARNING (3rd warning)", fine>>]
           [] OTHER -> s
    ELSE s

check_emission_warnings(s) ==
    IF s.current_emissions > s.SEVERE_EMISSION_THRESHOLD /\ s.emission_warnings < 4
    THEN game_over([s EXCEPT !.emission_warnings = 4], <<"Production halted!">>)
    ELSE IF s.current_emissions > s.WARNING_EMISSION_THRESHOLD
    THEN CASE s.emission_warnings = 0 ->
                [s EXCEPT !.emission_warnings = 1,
                          !.info_message = <<"WARNING (1st warning)">>]
           [] s.emission_warnings = 1 ->
                LET fine == FineOf(s.budget, 5)
                IN  [s EXCEPT !.emission_warnings = 2,
                              !.budget = s.budget - fine,
                              !.fines = Append(s.fines, <<5, fine>>),
                              !.info_message = <<"WARNING (2nd warning)", fine>>]
           [] s.emission_warnings = 2 ->
                LET fine == FineOf(s.budget, 10)
                IN  [s EXCEPT !.emission_warnings = 3,
                              !.budget = s.budget - fine,
                              !.fines = Append(s.fines, <<10, fine>>),
                              !.info_message = <<"SEVERE WARNING (3rd warning)", fine>>]
           [] OTHER -> s
    ELSE s

RECURSIVE HappinessFrom(_, _)
\* the loop of calculate_happiness from slot i on: <<total_happiness, selected_options>>
HappinessFrom(s, i) ==
    IF i > Len(Slots) THEN <<0, 0>>
    ELSE LET product == Slots[i][1]
             process == Slots[i][2]
             rest == HappinessFrom(s, i + 1)
         IN  IF s.player_choices[product][process] # None
             THEN <<rest[1] + processes[product][process][s.player_choices[product][process]].happiness,
                    rest[2] + 1>>
             ELSE rest


\* calculate_happiness with every slot of the catalog in the denominator
calculate_happiness_AllSlots(s) ==
    LET t == HappinessFrom(s, 1)
    IN  IF t[2] > 0
        THEN [s EXCEPT !.current_happiness = (t[1] * 100) \div (Len(Slots) * 5)]
        ELSE [s EXCEPT !.current_happiness = 0]


\* calculate_happiness rounding the percentage to the nearest integer
calculate_happiness_Rounds(s) ==
    LET t == HappinessFrom(s, 1)
    IN  IF t[2] > 0
        THEN [s EXCEPT !.current_happiness = (2 * t[1] * 100 + t[2] * 5) \div (2 * t[2] * 5)]
        ELSE [s EXCEPT !.current_happiness = 0]

\* calculate_happiness without the scale of 5 points per option
calculate_happiness_NoScale(s) ==
    LET t == HappinessFrom(s, 1)
    IN  IF t[2] > 0
        THEN [s EXCEPT !.current_happiness = (t[1] * 100) \div t[2]]
        ELSE [s EXCEPT !.current_happiness = 0]


\* calculate_happiness with 10 points per option in the denominator
calculate_happiness_PerTen(s) ==
    LET t == HappinessFrom(s, 1)
    IN  IF t[2] > 0
        THEN [s EXCEPT !.current_happiness = (t[1] * 100) \div (t[2] * 10)]
        ELSE [s EXCEPT !.current_happiness = 0]

\* int((total_happiness / (selected_options * 5)) * 100): for the at most 9
\* slots of the catalog the double value truncates to the exact floor
calculate_happiness(s) ==
    LET t == HappinessFrom(s, 1)
    IN  IF t[2] > 0
        THEN [s EXCEPT !.current_happiness = (t[1] * 100) \div (t[2] * 5)]
        ELSE [s EXCEPT !.current_happiness = 0]


\* all_filled with any(...) in place of all(...)
all_filled_Any(s) ==
    \E i \in 1..Len(Slots) : s.player_choices[Slots[i][1]][Slots[i][2]] # None

all_filled(s) ==
    \A i \in 1..Len(Slots) : s.player_choices[Slots[i][1]][Slots[i][2]] # None

\* check_game_conditions with the second ratio bound at 0.6 instead of 0.7
check_game_conditions_WrongRatio(s) ==
    IF s.current_emissions > s.MAX_EMISSION_THRESHOLD
    THEN game_over(s, <<"Game Over: Excessive Emissions!">>)
    ELSE IF s.current_happiness < MIN_HAPPINESS_THRESHOLD
    THEN game_over(s, <<"Game Over: Unhappy Customers!", s.current_happiness>>)
    ELSE IF s.budget < 0
    THEN game_over(s, <<"Game Over: Bankrupt!">>)
    ELSE IF all_filled(s)
    THEN IF s.current_emissions * 10 < 4 * s.MAX_EMISSION_THRESHOLD
         THEN game_over(s, <<"Excellent!">>)
         ELSE IF s.current_emissions * 10 < 6 * s.MAX_EMISSION_THRESHOLD
         THEN game_over(s, <<"Good job!">>)
         ELSE game_over(s, <<"Product complete, but emissions are higher than ideal.">>)
    ELSE s


\* check_game_conditions with the success tiers tested before the failures
check_game_conditions_SuccessFirst(s) ==
    IF all_filled(s)
    THEN IF s.current_emissions * 10 < 4 * s.MAX_EMISSION_THRESHOLD
         THEN game_over(s, <<"Excellent!">>)
         ELSE IF s.current_emissions * 10 < 7 * s.MAX_EMISSION_THRESHOLD
         THEN game_over(s, <<"Good job!">>)
         ELSE game_over(s, <<"Product complete, but emissions are higher than ideal.">>)
    ELSE IF s.current_emissions > s.MAX_EMISSION_THRESHOLD
    THEN game_over(s, <<"Game Over: Excessive Emissions!">>)
    ELSE IF s.current_happiness < MIN_HAPPINESS_THRESHOLD
    THEN game_over(s, <<"Game Over: Unhappy Customers!", s.current_happiness>>)
    ELSE IF s.budget < 0
    THEN game_over(s, <<"Game Over: Bankrupt!">>)
    ELSE s

check_game_conditions(s) ==
    IF s.current_emissions > s.MAX_EMISSION_THRESHOLD
    THEN game_over(s, <<"Game Over: Excessive Emissions!">>)
    ELSE IF s.current_happiness < MIN_HAPPINESS_THRESHOLD
    THEN game_over(s, <<"Game Over: Unhappy Customers!", s.current_happiness>>)
    ELSE IF s.budget < 0
    THEN game_over(s, <<"Game Over: Bankrupt!">>)
    ELSE IF all_filled(s)
    THEN \* emission_ratio = current_emissions / MAX_EMISSION_THRESHOLD
         IF s.current_emissions * 10 < 4 * s.MAX_EMISSION_THRESHOLD
         THEN game_over(s, <<"Excellent!">>)
         ELSE IF s.current_emissions * 10 < 7 * s.MAX_EMISSION_THRESHOLD
         THEN game_over(s, <<"Good job!">>)
         ELSE game_over(s, <<"Product complete, but emissions are higher than ideal.">>)
    ELSE s

\* lines 477: the three membership tests on self.processes
resolves(product, process, option) ==
    /\ product \in DOMAIN processes
    /\ process \in DOMAIN processes[product]
    /\ option \in DOMAIN processes[product][process]

\* invalid_selection returning True
invalid_selection_ReturnsTrue(s) ==
    [s EXCEPT !.info_message = <<"Invalid selection. Please try again.">>,
              !.last_return = "True"]

\* lines 478-479: the rejection of a selection that does not resolve
invalid_selection(s) ==
    [s EXCEPT !.info_message = <<"Invalid selection. Please try again.">>,
              !.last_return = "False"]

\* refund_previous with the emissions of the previous option left in the total
refund_previous_KeepsEmissions(s, product, process) ==
    LET previous_option == s.player_choices[product][process]
    IN  IF previous_option # None /\ previous_option \in DOMAIN processes[product][process]
        THEN [s EXCEPT !.budget = s.budget + processes[product][process][previous_option].cost]
        ELSE s

\* refund_previous with the cost of the previous option not given back
refund_previous_KeepsCost(s, product, process) ==
    LET previous_option == s.player_choices[product][process]
    IN  IF previous_option # None /\ previous_option \in DOMAIN processes[product][process]
        THEN [s EXCEPT !.current_emissions =
                           s.current_emissions - processes[product][process][previous_option].emissions]
        ELSE s


\* refund_previous giving back half of the cost of the previous option
refund_previous_HalfRefund(s, product, process) ==
    LET previous_option == s.player_choices[product][process]
    IN  IF previous_option # None /\ previous_option \in DOMAIN processes[product][process]
        THEN LET previous_data == processes[product][process][previous_option]
             IN  [s EXCEPT !.budget = s.budget + previous_data.cost \div 2,
                           !.current_emissions = s.current_emissions - previous_data.emissions]
        ELSE s

\* lines 487-493: refund previous option if exists
refund_previous(s, product, process) ==
    LET previous_option == s.player_choices[product][process]
    IN  IF previous_option # None /\ previous_option \in DOMAIN processes[product][process]
        THEN LET previous_data == processes[product][process][previous_option]
             IN  [s EXCEPT !.budget = s.budget + previous_data.cost,
                           !.current_emissions = s.current_emissions - previous_data.emissions]
        ELSE s

\* the budget test made after the refund of the option the slot holds
not_enough_budget_AfterRefund(s, product, process, option) ==
    processes[product][process][option].cost > refund_previous(s, product, process).budget


\* the budget test never rejecting
not_enough_budget_Never(s, product, process, option) ==
    FALSE

\* line 483: the budget test, made before any refund
not_enough_budget(s, product, process, option) ==
    processes[product][process][option].cost > s.budget

\* lines 484-485: the rejection of an option the budget does not cover
insufficient_budget(s, option, option_data) ==
    [s EXCEPT !.info_message = <<"Not enough budget", option, option_data.cost, s.budget>>,
              !.last_return = "False"]


\* apply_new_option followed by a recomputation of the thresholds from the
\* budget that is left
apply_new_option_Recomputes(s, product, process, option) ==
    LET option_data == processes[product][process][option]
    IN  calculate_dynamic_thresholds(
            [s EXCEPT !.player_choices[product][process] = option,
                      !.budget = s.budget - option_data.cost,
                      !.current_emissions = s.current_emissions + option_data.emissions,
                      !.info_message = <<"option info">>])


\* apply_new_option without the deduction of the cost of the option
apply_new_option_KeepsBudget(s, product, process, option) ==
    LET option_data == processes[product][process][option]
    IN  [s EXCEPT !.player_choices[product][process] = option,
                  !.current_emissions = s.current_emissions + option_data.emissions,
                  !.info_message = <<"option info">>]


\* apply_new_option taking the cost of the option twice
apply_new_option_ChargesTwice(s, product, process, option) ==
    LET option_data == processes[product][process][option]
    IN  [s EXCEPT !.player_choices[product][process] = option,
                  !.budget = s.budget - 2 * option_data.cost,
                  !.current_emissions = s.current_emissions + option_data.emissions,
                  !.info_message = <<"option info">>]

\* lines 495-499: apply new option
apply_new_option(s, product, process, option) ==
    LET option_data == processes[product][process][option]
    IN  [s EXCEPT !.player_choices[product][process] = option,
                  !.budget = s.budget - option_data.cost,
                  !.current_emissions = s.current_emissions + option_data.emissions,
                  !.info_message = <<"option info">>]

\* lines 504-512: check_game_conditions is called only if all processes are filled
check_if_all_filled(s) ==
    IF all_filled(s) THEN check_game_conditions(s) ELSE s

select_process_option(s, product, process, option) ==
    IF ~resolves(product, process, option)
    THEN invalid_selection(s)
    ELSE IF not_enough_budget(s, product, process, option)
    THEN insufficient_budget(s, option, processes[product][process][option])
    ELSE LET applied == apply_new_option(refund_previous(s, product, process),
                                         product, process, option)
             checked == calculate_happiness(check_emission_warnings(applied))
         IN  [check_if_all_filled(checked) EXCEPT !.last_return = "True"]

\* the budgets random.randint can return that the model draws from
BudgetSamples == <<20500, 3385, 6000, 30000, 16000, 10000>>

Budgets == { BudgetSamples[i] : i \in 1..NumBudgets }


\* reset_game computing the thresholds before the budget is drawn
reset_game_ThresholdsBeforeDraw(budget_level, new_budget) ==
    [calculate_dynamic_thresholds(
        [budget |-> 0,
         current_emissions |-> 0,
         current_happiness |-> 0,
         emission_warnings |-> 0,
         game_state |-> "playing",
         player_choices |-> [p \in Products |-> [q \in DOMAIN processes[p] |-> None]],
         info_message |-> <<"Welcome!", budget_level, new_budget>>,
         MAX_EMISSION_THRESHOLD |-> 0,
         SEVERE_EMISSION_THRESHOLD |-> 0,
         WARNING_EMISSION_THRESHOLD |-> 0,
         start_budget |-> new_budget,
         fines |-> <<>>,
         last_return |-> "none"]) EXCEPT !.budget = new_budget]

reset_game(budget_level, new_budget) ==
    calculate_dynamic_thresholds(
        [budget |-> new_budget,
         current_emissions |-> 0,
         current_happiness |-> 0,
         emission_warnings |-> 0,
         game_state |-> "playing",
         player_choices |-> [p \in Products |-> [q \in DOMAIN processes[p] |-> None]],
         info_message |-> <<"Welcome!", budget_level, new_budget>>,
         MAX_EMISSION_THRESHOLD |-> 0,
         SEVERE_EMISSION_THRESHOLD |-> 0,
         WARNING_EMISSION_THRESHOLD |-> 0,
         start_budget |-> new_budget,
         fines |-> <<>>,
         last_return |-> "none"])

(***************************************************************************)
(* The object as a record, and the transfer of a record to the variables.   *)
(***************************************************************************)
Self ==
    [budget |-> budget,
     current_emissions |-> current_emissions,
     current_happiness |-> current_happiness,
     emission_warnings |-> emission_warnings,
     game_state |-> game_state,
     player_choices |-> player_choices,
     info_message |-> info_message,
     MAX_EMISSION_THRESHOLD |-> MAX_EMISSION_THRESHOLD,
     SEVERE_EMISSION_THRESHOLD |-> SEVERE_EMISSION_THRESHOLD,
     WARNING_EMISSION_THRESHOLD |-> WARNING_EMISSION_THRESHOLD,
     start_budget |-> start_budget,
     fines |-> fines,
     last_return |-> last_return]

Becomes(s) ==
    /\ budget' = s.budget
    /\ current_emissions' = s.current_emissions
    /\ current_happiness' = s.current_happiness
    /\ emission_warnings' = s.emission_warnings
    /\ game_state' = s.game_state
    /\ player_choices' = s.player_choices
    /\ info_message' = s.info_message
    /\ MAX_EMISSION_THRESHOLD' = s.MAX_EMISSION_THRESHOLD
    /\ SEVERE_EMISSION_THRESHOLD' = s.SEVERE_EMISSION_THRESHOLD
    /\ WARNING_EMISSION_THRESHOLD' = s.WARNING_EMISSION_THRESHOLD
    /\ start_budget' = s.start_budget
    /\ fines' = s.fines
    /\ last_return' = s.last_return

Is(s) ==
    /\ budget = s.budget
    /\ current_emissions = s.current_emissions
    /\ current_happiness = s.current_happiness
    /\ emission_warnings = s.emission_warnings
    /\ game_state = s.game_state
    /\ player_choices = s.player_choices
    /\ info_message = s.info_message
    /\ MAX_EMISSION_THRESHOLD = s.MAX_EMISSION_THRESHOLD
    /\ SEVERE_EMISSION_THRESHOLD = s.SEVERE_EMISSION_THRESHOLD
    /\ WARNING_EMISSION_THRESHOLD = s.WARNING_EMISSION_THRESHOLD
    /\ start_budget = s.start_budget
    /\ fines = s.fines
    /\ last_return = s.last_return

\* random.choice(self.budget_levels) followed by random.randint(min, max)
Draws ==
    { d \in (1..Len(budget_levels)) \X Budgets :
        /\ budget_ranges[budget_levels[d[1]]][1] <= d[2]
        /\ d[2] <= budget_ranges[budget_levels[d[1]]][2] }

(***************************************************************************)
(* Event handlers.                                                          *)
(***************************************************************************)
\* the text of an option button: the option name, then "$cost | Em: emissions"
ButtonText(option, details) == option \o << <<"$", details.cost, "Em", details.emissions>> >>

\* button.text.split('\n')[0], as an option name
FirstLine(text) == << Head(text) >>

\* the option buttons the player clicks, as <<product, process, option>>
Buttons ==
    << <<"Pizza", "Ingredient Sourcing", <<"Plant Based">> >>,
       <<"Pizza", "Dough Preparation", <<"Handmade">> >>,
       <<"Pizza", "Baking", <<"Solar">> >>,
       <<"Pizza", "Packaging", <<"Biodegradable">> >>,
       <<"E-Bike", "Battery Production", <<"Recycled Batteries">> >>,
       <<"E-Bike", "Frame Production", <<"Carbon Fiber">> >>,
       <<"E-Bike", "Assembly", <<"Automated">> >>,
       <<"Smartphone", "Component Production", <<"In-House">> >>,
       <<"Smartphone", "Distribution", <<"Sea Freight">> >>,
       <<"Pizza", "Ingredient Sourcing", <<"Local", "Seasonal">> >>,
       <<"Pizza", "Packaging", <<"Plastic">> >>,
       <<"Pizza", "Dough Preparation", <<"Mass Produced">> >>,
       <<"E-Bike", "Battery Production", <<"Lithium Mining">> >>,
       <<"Smartphone", "Distribution", <<"Air Freight">> >>,
       <<"Pizza", "Ingredient Sourcing", <<"Conventional">> >>,
       <<"E-Bike", "Frame Production", <<"Aluminum">> >>,
       <<"E-Bike", "Assembly", <<"Manual">> >>,
       <<"Smartphone", "Component Production", <<"Outsource">> >>,
       <<"Pizza", "Baking", <<"Gas Oven">> >>,
       <<"Pizza", "Ingredient Sourcing", <<"Organic">> >>,
       <<"Pizza", "Baking", <<"Wood Fired">> >> >>

Clicked == { Buttons[i] : i \in 1..NumButtons }

\* __init__: the state after construction
Init ==
    \E d \in Draws : Is(reset_game(budget_levels[d[1]], d[2]))

\* the call of select_process_option that run makes for a click on the button
\* of `option` while the tab of `product` is open
ClickOption(s, product, process, option) ==
    select_process_option(s, product, process,
        FirstLine(ButtonText(option, processes[product][process][option])))

\* OptionButton without the test of game_state
OptionButton_Unguarded(product, process, option) ==
    /\ product \in DOMAIN processes
    /\ process \in DOMAIN processes[product]
    /\ option \in DOMAIN processes[product][process]
    /\ Becomes(ClickOption(Self, product, process, option))

\* run: a click on an option button
OptionButton(product, process, option) ==
    /\ game_state = "playing"
    /\ product \in DOMAIN processes
    /\ process \in DOMAIN processes[product]
    /\ option \in DOMAIN processes[product][process]
    /\ Becomes(ClickOption(Self, product, process, option))

\* run: a click on the "Reset Game" button
ResetButton ==
    /\ game_state = "playing"
    /\ \E d \in Draws : Becomes(reset_game(budget_levels[d[1]], d[2]))

\* draw_game_over: a click on the "Play Again" button
PlayAgain ==
    /\ game_state = "game_over"
    /\ \E d \in Draws : Becomes(reset_game(budget_levels[d[1]], d[2]))

Next ==
    \/ \E b \in Clicked : OptionButton(b[1], b[2], b[3])
    \/ ResetButton
    \/ PlayAgain

Spec == Init /\ [][Next]_vars

(***************************************************************************)
(* Auxiliary definitions of the properties.                                 *)
(***************************************************************************)

(***************************************************************************)
(* A second specification of the same handlers: a session of an            *)
(* "Established Firm" in which the player clicks one option per process,    *)
(* the low-emission ones and Air Freight for the distribution, so that the  *)
(* click that fills the last slot can take the emissions above the maximum. *)
(***************************************************************************)
\* the budget random.randint returns in this session
FillBudget == BudgetSamples[5]

\* the positions in Buttons of the option buttons the player clicks
FillButtons == (1..8) \cup {14}

FillClicked == { Buttons[i] : i \in FillButtons }

FillDraws ==
    { d \in (1..Len(budget_levels)) \X {FillBudget} :
        /\ budget_ranges[budget_levels[d[1]]][1] <= d[2]
        /\ d[2] <= budget_ranges[budget_levels[d[1]]][2] }

FillInit ==
    \E d \in FillDraws : Is(reset_game(budget_levels[d[1]], d[2]))

FillResetButton ==
    /\ game_state = "playing"
    /\ \E d \in FillDraws : Becomes(reset_game(budget_levels[d[1]], d[2]))

FillPlayAgain ==
    /\ game_state = "game_over"
    /\ \E d \in FillDraws : Becomes(reset_game(budget_levels[d[1]], d[2]))

FillNext ==
    \/ \E b \in FillClicked : OptionButton(b[1], b[2], b[3])
    \/ FillResetButton
    \/ FillPlayAgain

FillSpec == FillInit /\ [][FillNext]_vars

RECURSIVE EmissionsFrom(_, _)
\* the emissions of the options that `choices` holds in the slots from i on
EmissionsFrom(choices, i) ==
    IF i > Len(Slots) THEN 0
    ELSE LET product == Slots[i][1]
             process == Slots[i][2]
         IN  (IF choices[product][process] # None
              THEN processes[product][process][choices[product][process]].emissions
              ELSE 0) + EmissionsFrom(choices, i + 1)

RECURSIVE CostFrom(_, _)
\* the cost of the options that `choices` holds in the slots from i on
CostFrom(choices, i) ==
    IF i > Len(Slots) THEN 0
    ELSE LET product == Slots[i][1]
             process == Slots[i][2]
         IN  (IF choices[product][process] # None
              THEN processes[product][process][choices[product][process]].cost
              ELSE 0) + CostFrom(choices, i + 1)

FilledSlots == { i \in 1..Len(Slots) : player_choices[Slots[i][1]][Slots[i][2]] # None }

RECURSIVE FineTotal(_)
\* the sum of the amounts of a sequence of fines
FineTotal(fs) == IF fs = <<>> THEN 0 ELSE Head(fs)[2] + FineTotal(Tail(fs))

\* the part of the state that the player observes besides the message
CoreState ==
    <<budget, current_emissions, current_happiness, emission_warnings,
      game_state, player_choices>>

\* the call of select_process_option returned True
Accepted(s) == s.last_return = "True"

(***************************************************************************)
(* Properties.                                                              *)
(***************************************************************************)

\* C1: after every call of select_process_option, accepted or rejected, the
\* cumulative emissions equal the sum of the emissions of the options that
\* the slots currently hold.
C1_EmissionsAreSumOfSelected ==
    current_emissions = EmissionsFrom(player_choices, 1)

\* an accepted call that left several selections and a fine behind, and from
\* which the option of the Packaging slot can be replaced with a refund
C1_Witness ==
    /\ last_return = "True"
    /\ game_state = "playing"
    /\ Cardinality(FilledSlots) >= 3
    /\ fines # <<>>
    /\ player_choices["Pizza"]["Packaging"] = <<"Plastic">>
    /\ refund_previous(Self, "Pizza", "Packaging").current_emissions < current_emissions

\* C2: re-applying the option that a slot already holds leaves budget,
\* emissions, happiness, warning stage, status and selections as they were.
C2_ReapplyIsIdempotent ==
    [][\A b \in Clicked :
          (player_choices[b[1]][b[2]] = b[3] /\ OptionButton(b[1], b[2], b[3]))
              => CoreState' = CoreState]_vars

\* the two calls of a round trip on the slot of button b, which holds another
\* option: the click on b, then the click on the option the slot held
RoundTripFirst(b) == ClickOption(Self, b[1], b[2], b[3])
RoundTripSecond(b) ==
    ClickOption(RoundTripFirst(b), b[1], b[2], player_choices[b[1]][b[2]])

\* the slot of b holds an option A other than b, the click on b is accepted and
\* leaves the game running, and the click on A that follows is accepted
RoundTripHappens(b) ==
    /\ game_state = "playing"
    /\ player_choices[b[1]][b[2]] # None
    /\ player_choices[b[1]][b[2]] # b[3]
    /\ Accepted(RoundTripFirst(b))
    /\ RoundTripFirst(b).game_state = "playing"
    /\ Accepted(RoundTripSecond(b))

\* C3 as stated: applying a different option B to a slot that holds A and then
\* A again restores budget and emissions to their values before B.
C3_RoundTripRestoresBudgetAndEmissions ==
    \A b \in Clicked :
        RoundTripHappens(b) =>
            /\ RoundTripSecond(b).budget = budget
            /\ RoundTripSecond(b).current_emissions = current_emissions

\* C3 as amended: the round trip restores the emissions exactly and the budget
\* up to the fines that the two calls are charged, hence exactly when neither
\* call is charged a fine.
C3_RoundTripRestoresUpToFines ==
    \A b \in Clicked :
        RoundTripHappens(b) =>
            /\ RoundTripSecond(b).current_emissions = current_emissions
            /\ RoundTripSecond(b).budget =
                   budget - (FineTotal(RoundTripSecond(b).fines) - FineTotal(fines))
            /\ (RoundTripSecond(b).fines = fines => RoundTripSecond(b).budget = budget)

\* a state from which a round trip happens and neither call is charged a fine
C3_Witness ==
    \E b \in Clicked :
        /\ RoundTripHappens(b)
        /\ RoundTripSecond(b).fines = fines
        /\ RoundTripFirst(b).budget # budget

\* the name that run passes to select_process_option for the button of b
Passed(b) == FirstLine(ButtonText(b[3], processes[b[1]][b[2]][b[3]]))

\* the thresholds of the session
Thresholds ==
    <<MAX_EMISSION_THRESHOLD, SEVERE_EMISSION_THRESHOLD, WARNING_EMISSION_THRESHOLD>>

\* CoreState and Thresholds of the object s
CoreOf(s) ==
    <<s.budget, s.current_emissions, s.current_happiness, s.emission_warnings,
      s.game_state, s.player_choices>>

ThresholdsOf(s) ==
    <<s.MAX_EMISSION_THRESHOLD, s.SEVERE_EMISSION_THRESHOLD, s.WARNING_EMISSION_THRESHOLD>>

\* C4: within a session the warning stage never decreases, and a fine is
\* charged only on the step from stage 1 to 2 (5%) and on the step from stage
\* 2 to 3 (10%), so that a session is charged at most one fine of each kind;
\* the budget changes by the costs of the options and by these fines only.
C4_StageMonotoneFinesOnce ==
    [][last_return' # "none" =>
          /\ emission_warnings' >= emission_warnings
          /\ (fines' # fines =>
                \/ /\ emission_warnings = 1 /\ emission_warnings' = 2
                   /\ fines = <<>>
                   /\ Len(fines') = 1 /\ fines'[1][1] = 5
                \/ /\ emission_warnings = 2 /\ emission_warnings' = 3
                   /\ Len(fines) = 1 /\ fines[1][1] = 5
                   /\ Len(fines') = 2 /\ fines'[1] = fines[1] /\ fines'[2][1] = 10)
          /\ Len(fines') <= 2
          /\ budget' + CostFrom(player_choices', 1) + FineTotal(fines')
                = budget + CostFrom(player_choices, 1) + FineTotal(fines)]_vars

\* a session that has been charged both fines and went on with a call at stage 3
C4_Witness ==
    /\ emission_warnings = 3
    /\ Len(fines) = 2
    /\ game_state = "playing"
    /\ last_return = "True"
    /\ info_message = <<"option info">>
    /\ current_emissions > WARNING_EMISSION_THRESHOLD

\* C5: a call whose identifiers resolve and whose option costs more than the
\* current budget returns False and changes nothing but the message.
C5_InsufficientBudgetLeavesState ==
    \A b \in Clicked :
        (/\ game_state = "playing"
         /\ resolves(b[1], b[2], Passed(b))
         /\ processes[b[1]][b[2]][Passed(b)].cost > budget)
            => /\ ClickOption(Self, b[1], b[2], b[3]).last_return = "False"
               /\ CoreOf(ClickOption(Self, b[1], b[2], b[3])) = CoreState
               /\ ThresholdsOf(ClickOption(Self, b[1], b[2], b[3])) = Thresholds

\* a rejected call for lack of budget, made with selections in place
C5_Witness ==
    /\ last_return = "False"
    /\ info_message[1] = "Not enough budget"
    /\ FilledSlots # {}

\* C6 as stated: a call whose option does not resolve returns False and
\* changes nothing, the message included.
C6_InvalidLeavesStateAndMessage ==
    \A b \in Clicked :
        (game_state = "playing" /\ ~resolves(b[1], b[2], Passed(b)))
            => /\ ClickOption(Self, b[1], b[2], b[3]).last_return = "False"
               /\ CoreOf(ClickOption(Self, b[1], b[2], b[3])) = CoreState
               /\ ThresholdsOf(ClickOption(Self, b[1], b[2], b[3])) = Thresholds
               /\ ClickOption(Self, b[1], b[2], b[3]).info_message = info_message

\* C6 as amended: a call whose option does not resolve returns False and
\* changes nothing but the message, which becomes the invalid-selection notice.
C6_InvalidLeavesStateSetsMessage ==
    \A b \in Clicked :
        (game_state = "playing" /\ ~resolves(b[1], b[2], Passed(b)))
            => /\ ClickOption(Self, b[1], b[2], b[3]).last_return = "False"
               /\ CoreOf(ClickOption(Self, b[1], b[2], b[3])) = CoreState
               /\ ThresholdsOf(ClickOption(Self, b[1], b[2], b[3])) = Thresholds
               /\ ClickOption(Self, b[1], b[2], b[3]).info_message =
                      <<"Invalid selection. Please try again.">>

\* a rejected call for an option that does not resolve, made with selections in place
C6_Witness ==
    /\ last_return = "False"
    /\ info_message = <<"Invalid selection. Please try again.">>
    /\ FilledSlots # {}

\* C7: an accepted call that leaves the emissions above the severe threshold
\* ends with warning stage 4, the game over and the halt notice as message,
\* whether or not it fills the last slot.
C7_SevereJumpEndsHalted ==
    [][\A b \in Clicked :
          (/\ last_return' = "True"
           /\ emission_warnings < 4
           /\ current_emissions' > SEVERE_EMISSION_THRESHOLD
           /\ OptionButton(b[1], b[2], b[3]))
              => /\ emission_warnings' = 4
                 /\ game_state' = "game_over"
                 /\ info_message' = <<"Production halted!">>]_vars

\* the state that reset_game leaves, up to the budget drawn
FreshSession ==
    /\ game_state = "playing"
    /\ current_emissions = 0
    /\ current_happiness = 0
    /\ emission_warnings = 0
    /\ FilledSlots = {}
    /\ info_message[1] = "Welcome!"
    /\ last_return = "none"

\* C8: once the game is over, the state changes only by a reset.
C8_GameOverIsTerminal ==
    [][game_state = "game_over" => FreshSession']_vars

\* a finished game with every slot filled, and one halted with slots unset
C8_Witness ==
    /\ game_state = "game_over"
    /\ emission_warnings = 4
    /\ Cardinality(FilledSlots) < Len(Slots)

\* C9: after an accepted call the game is not running with emissions above
\* the maximum, happiness below the minimum or a negative budget, also while
\* slots are unset.
C9_NoFailureWhilePlaying ==
    (/\ last_return = "True"
     /\ \/ current_emissions > MAX_EMISSION_THRESHOLD
        \/ current_happiness < MIN_HAPPINESS_THRESHOLD
        \/ budget < 0) => game_state # "playing"

\* an accepted call that left the emissions above the maximum with slots unset
C9_Witness ==
    /\ last_return = "True"
    /\ current_emissions > MAX_EMISSION_THRESHOLD
    /\ Cardinality(FilledSlots) < Len(Slots)
    /\ game_state = "game_over"

\* none of the failure conditions of check_game_conditions holds
NoFailure ==
    /\ current_emissions <= MAX_EMISSION_THRESHOLD
    /\ current_happiness >= MIN_HAPPINESS_THRESHOLD
    /\ budget >= 0

\* the message of the success tier of the emission ratio
TierMessage ==
    IF current_emissions * 10 < 4 * MAX_EMISSION_THRESHOLD THEN <<"Excellent!">>
    ELSE IF current_emissions * 10 < 7 * MAX_EMISSION_THRESHOLD THEN <<"Good job!">>
    ELSE <<"Product complete, but emissions are higher than ideal.">>

\* C10 as stated: after an accepted call with no failure condition, the game
\* is over with the tier of the emission ratio if every slot is filled, and
\* still running otherwise.
C10_SuccessTiersElsePlaying ==
    (last_return = "True" /\ NoFailure) =>
        IF Cardinality(FilledSlots) = Len(Slots)
        THEN game_state = "game_over" /\ info_message = TierMessage
        ELSE game_state = "playing"

\* C10 as amended: after an accepted call with no failure condition, the game
\* is over with the tier of the emission ratio if every slot is filled;
\* otherwise it is still running unless the emissions are above the severe
\* threshold, in which case it is over with the halt notice.
C10_SuccessTiersElsePlayingOrHalted ==
    (last_return = "True" /\ NoFailure) =>
        IF Cardinality(FilledSlots) = Len(Slots)
        THEN game_state = "game_over" /\ info_message = TierMessage
        ELSE IF current_emissions <= SEVERE_EMISSION_THRESHOLD
        THEN game_state = "playing"
        ELSE game_state = "game_over" /\ info_message = <<"Production halted!">>

\* the call that filled the last slot with the emissions in the Good tier
C10_Witness ==
    /\ last_return = "True"
    /\ NoFailure
    /\ Cardinality(FilledSlots) = Len(Slots)
    /\ info_message = <<"Good job!">>

\* C11: the three thresholds are fixed for the whole session: no call of
\* select_process_option, accepted or rejected, fined or not, changes any of
\* them; they change only with a reset that draws another budget.
C11_ThresholdsFixedInSession ==
    [][/\ (last_return' # "none" => Thresholds' = Thresholds)
       /\ (Thresholds' # Thresholds => start_budget' # start_budget)]_vars

\* an accepted call in a session whose budget has been lowered by costs and a
\* fine, so that the thresholds of the budget that is left would be others
C11_Witness ==
    /\ last_return = "True"
    /\ fines # <<>>
    /\ budget < start_budget
    /\ calculate_dynamic_thresholds(Self).MAX_EMISSION_THRESHOLD < MAX_EMISSION_THRESHOLD

\* C12: for the budget B drawn by the session, the maximum threshold is
\* ceil(6 * B / 10), the severe threshold ceil(0.7 * maximum) and the warning
\* threshold ceil(0.5 * maximum).
C12_ThresholdsAreExactCeilings ==
    /\ MAX_EMISSION_THRESHOLD = CeilDiv(6 * start_budget, 10)
    /\ SEVERE_EMISSION_THRESHOLD = CeilDiv(7 * MAX_EMISSION_THRESHOLD, 10)
    /\ WARNING_EMISSION_THRESHOLD = CeilDiv(5 * MAX_EMISSION_THRESHOLD, 10)

RECURSIVE HappinessSum(_, _)
\* the happiness values of the options that `choices` holds in the slots from i on
HappinessSum(choices, i) ==
    IF i > Len(Slots) THEN 0
    ELSE LET product == Slots[i][1]
             process == Slots[i][2]
         IN  (IF choices[product][process] # None
              THEN processes[product][process][choices[product][process]].happiness
              ELSE 0) + HappinessSum(choices, i + 1)

\* C13: after every accepted call the happiness is floor(100 * H / (5 * n)),
\* n the number of slots that hold an option and H the sum of the happiness
\* values of these options; unset slots are not in the denominator.
C13_HappinessIsFloorOverSelected ==
    last_return = "True" =>
        current_happiness =
            (100 * HappinessSum(player_choices, 1)) \div (5 * Cardinality(FilledSlots))

\* an accepted call that left some but not all slots filled, with a quotient
\* that is not an integer
C13_Witness ==
    /\ last_return = "True"
    /\ Cardinality(FilledSlots) > 1
    /\ Cardinality(FilledSlots) < Len(Slots)
    /\ (100 * HappinessSum(player_choices, 1)) % (5 * Cardinality(FilledSlots)) # 0

\* a / b rounded to the nearest integer, halves upwards, for a >= 0 and b > 0
RoundDiv(a, b) == (2 * a + b) \div (2 * b)

\* floor(100 * H / (5 * n)) over the selected options, 0 if none is selected
FloorHappiness ==
    IF FilledSlots = {} THEN 0
    ELSE (100 * HappinessSum(player_choices, 1)) \div (5 * Cardinality(FilledSlots))

\* round(100 * H / (5 * n)) over the selected options, 0 if none is selected
RoundHappiness ==
    IF FilledSlots = {} THEN 0
    ELSE RoundDiv(100 * HappinessSum(player_choices, 1), 5 * Cardinality(FilledSlots))

\* C14 as stated: in every reachable state the happiness is 100 * H / (5 * n)
\* rounded to the nearest integer, or 0 if no option is selected.
C14_HappinessIsRounded ==
    current_happiness = RoundHappiness

\* C14 as amended: in every reachable state the happiness is 100 * H / (5 * n)
\* rounded down to an integer, or 0 if no option is selected.
C14_HappinessIsRoundedDown ==
    current_happiness = FloorHappiness

\* a state left by a rejected call in which rounding down and rounding to the
\* nearest integer differ
C14_Witness ==
    /\ last_return = "False"
    /\ FilledSlots # {}
    /\ FloorHappiness # RoundHappiness

\* C15: in every reachable state the happiness is between 0 and 100.
C15_HappinessInRange ==
    0 <= current_happiness /\ current_happiness <= 100

\* an accepted call that left the happiness at its upper end
C15_Witness ==
    /\ last_return = "True"
    /\ current_happiness = 100
    /\ HappinessSum(player_choices, 1) = 5 * Cardinality(FilledSlots)

\* C16: the construction and every reset leave a fresh session: every slot
\* of the catalog unset, emissions, happiness and warning stage 0, the game
\* running, the budget inside the range of one of the five budget levels
\* (3000..30000 overall), and the thresholds computed from that budget.
C16_ResetGivesFreshSession ==
    last_return = "none" =>
        /\ DOMAIN player_choices = DOMAIN processes
        /\ \A p \in DOMAIN processes :
              /\ DOMAIN player_choices[p] = DOMAIN processes[p]
              /\ \A q \in DOMAIN processes[p] : player_choices[p][q] = None
        /\ current_emissions = 0
        /\ current_happiness = 0
        /\ emission_warnings = 0
        /\ game_state = "playing"
        /\ budget \in 3000..30000
        /\ \E i \in 1..Len(budget_levels) :
              /\ budget_ranges[budget_levels[i]][1] <= budget
              /\ budget <= budget_ranges[budget_levels[i]][2]
        /\ MAX_EMISSION_THRESHOLD =
              calculate_dynamic_thresholds(Self).MAX_EMISSION_THRESHOLD
        /\ SEVERE_EMISSION_THRESHOLD =
              calculate_dynamic_thresholds(Self).SEVERE_EMISSION_THRESHOLD
        /\ WARNING_EMISSION_THRESHOLD =
              calculate_dynamic_thresholds(Self).WARNING_EMISSION_THRESHOLD
        /\ MAX_EMISSION_THRESHOLD > 0

\* a session just started at the lowest budget level
C16_Witness ==
    /\ last_return = "none"
    /\ info_message[1] = "Welcome!"
    /\ info_message[2] = "Struggling Startup"
    /\ budget = info_message[3]
    /\ budget = start_budget

\* C17: an accepted call for option o on an unset slot that leaves the
\* emissions at or below the warning threshold sets the slot to o, takes the
\* cost of o from the budget, adds the emissions of o and keeps the warning
\* stage; every other slot stays as it was.
C17_ApplyToUnsetSlot ==
    [][\A b \in Clicked :
          (/\ player_choices[b[1]][b[2]] = None
           /\ last_return' = "True"
           /\ current_emissions' <= WARNING_EMISSION_THRESHOLD
           /\ OptionButton(b[1], b[2], b[3]))
              => /\ player_choices' = [player_choices EXCEPT ![b[1]][b[2]] = b[3]]
                 /\ budget' = budget - processes[b[1]][b[2]][b[3]].cost
                 /\ current_emissions' =
                        current_emissions + processes[b[1]][b[2]][b[3]].emissions
                 /\ emission_warnings' = emission_warnings]_vars

\* an accepted call that left several slots filled, the emissions at or below
\* the warning threshold and the budget lowered by the costs only
C17_Witness ==
    /\ last_return = "True"
    /\ game_state = "playing"
    /\ emission_warnings = 0
    /\ Cardinality(FilledSlots) >= 2
    /\ current_emissions > 0
    /\ current_emissions <= WARNING_EMISSION_THRESHOLD
    /\ budget = start_budget - CostFrom(player_choices, 1)

\* the budgets a session can draw: the union of the ranges of the levels
DrawableBudgets ==
    UNION { budget_ranges[budget_levels[i]][1] .. budget_ranges[budget_levels[i]][2] :
              i \in 1..Len(budget_levels) }

\* the least emissions among the options of a process
LeastEmissionsOf(product, process) ==
    CHOOSE e \in { processes[product][process][o].emissions :
                     o \in DOMAIN processes[product][process] } :
        \A o \in DOMAIN processes[product][process] :
            e <= processes[product][process][o].emissions

RECURSIVE LeastEmissionsFrom(_)
\* the least emissions with which the slots from i on can be filled
LeastEmissionsFrom(i) ==
    IF i > Len(Slots) THEN 0
    ELSE LeastEmissionsOf(Slots[i][1], Slots[i][2]) + LeastEmissionsFrom(i + 1)

\* the maximum threshold of a session that draws budget b
MaxThresholdOf(b) ==
    calculate_dynamic_thresholds(
        [budget |-> b, MAX_EMISSION_THRESHOLD |-> 0, SEVERE_EMISSION_THRESHOLD |-> 0,
         WARNING_EMISSION_THRESHOLD |-> 0]).MAX_EMISSION_THRESHOLD

\* C18: the Excellent outcome is reachable in the shipped game: the budget
\* of the session is one of the budgets a session can draw, and for some
\* such budget the slots of the catalog can all be filled with emissions
\* below 0.4 of the maximum threshold of that budget.
C18_ExcellentIsReachable ==
    /\ start_budget \in DrawableBudgets
    /\ \E b \in DrawableBudgets : LeastEmissionsFrom(1) * 10 < 4 * MaxThresholdOf(b)

\* the messages of the three success tiers
SuccessMessages ==
    { <<"Excellent!">>, <<"Good job!">>,
      <<"Product complete, but emissions are higher than ideal.">> }

\* C19: in every reachable state each slot of the catalog is unset or holds
\* one option of its own process, and whenever the game is over with a
\* success outcome every slot of every product holds an option.
C19_SlotsHoldOwnOptions ==
    /\ \A p \in DOMAIN processes : \A q \in DOMAIN processes[p] :
          \/ player_choices[p][q] = None
          \/ player_choices[p][q] \in DOMAIN processes[p][q]
    /\ (game_state = "game_over" /\ info_message \in SuccessMessages)
          => \A p \in DOMAIN processes : \A q \in DOMAIN processes[p] :
                player_choices[p][q] \in DOMAIN processes[p][q]

\* a game that ended with a success outcome of the lowest tier
C19_Witness ==
    /\ game_state = "game_over"
    /\ info_message = <<"Product complete, but emissions are higher than ideal.">>
    /\ \A p \in DOMAIN processes : \A q \in DOMAIN processes[p] :
          player_choices[p][q] \in DOMAIN processes[p][q]

\* C20: every accepted call made at warning stage 0, 1 or 2 that leaves the
\* emissions above the warning threshold and at or below the severe one
\* raises the stage by exactly one, whether the call raised the emissions,
\* lowered them or re-selected the option of the slot; the step from 0 to 1
\* charges no fine, so the budget changes by the costs of the options only.
C20_WarningStepsByOne ==
    [][(/\ emission_warnings \in {0, 1, 2}
        /\ last_return' = "True"
        /\ current_emissions' > WARNING_EMISSION_THRESHOLD
        /\ current_emissions' <= SEVERE_EMISSION_THRESHOLD)
          => /\ emission_warnings' = emission_warnings + 1
             /\ (emission_warnings = 0 =>
                    /\ fines' = fines
                    /\ budget' + CostFrom(player_choices', 1)
                          = budget + CostFrom(player_choices, 1))]_vars

\* a call that raised the stage to 2, left in a state from which re-selecting
\* the option of a slot raises it to 3 and replacing an option by one with
\* lower emissions does so too
C20_Witness ==
    /\ last_return = "True"
    /\ game_state = "playing"
    /\ emission_warnings = 2
    /\ current_emissions > WARNING_EMISSION_THRESHOLD
    /\ current_emissions <= SEVERE_EMISSION_THRESHOLD
    /\ \E b \in Clicked :
          /\ player_choices[b[1]][b[2]] = b[3]
          /\ ClickOption(Self, b[1], b[2], b[3]).emission_warnings = 3
    /\ \E b \in Clicked :
          /\ player_choices[b[1]][b[2]] # None
          /\ Accepted(ClickOption(Self, b[1], b[2], b[3]))
          /\ ClickOption(Self, b[1], b[2], b[3]).current_emissions < current_emissions
          /\ ClickOption(Self, b[1], b[2], b[3]).emission_warnings = 3

\* the budget of the call that is being made, after the refund of the option
\* the slot held and the purchase of the new one, before any fine
BudgetAfterPurchase ==
    budget + CostFrom(player_choices, 1) - CostFrom(player_choices', 1)

\* C21: a fine is computed on the budget at the moment of the fine: with b
\* the budget before the call plus the cost of the option the slot held minus
\* the cost of the new option, the call that takes the stage from 1 to 2 ends
\* with budget b - ceil(0.05 * b) and the one from 2 to 3 with b - ceil(0.10 * b).
C21_FineOnBudgetOfTheMoment ==
    [][last_return' = "True" =>
          /\ (emission_warnings = 1 /\ emission_warnings' = 2) =>
                budget' = BudgetAfterPurchase - CeilDiv(5 * BudgetAfterPurchase, 100)
          /\ (emission_warnings = 2 /\ emission_warnings' = 3) =>
                budget' = BudgetAfterPurchase - CeilDiv(10 * BudgetAfterPurchase, 100)]_vars

\* the call that was charged the 10% fine, on a budget that costs and the 5%
\* fine had lowered before
C21_Witness ==
    /\ last_return = "True"
    /\ emission_warnings = 3
    /\ info_message[1] = "SEVERE WARNING (3rd warning)"
    /\ Len(fines) = 2
    /\ fines[2][2] = CeilDiv(10 * (budget + fines[2][2]), 100)
    /\ fines[2][2] < CeilDiv(10 * start_budget, 100)

\* C22: an accepted call that leaves the emissions at or below the warning
\* threshold, or above it and at or below the severe one at stage 3, leaves
\* the warning stage as it was and charges no fine.
C22_NoEscalationBelowWarningOrAtThree ==
    [][(/\ last_return' = "True"
        /\ \/ current_emissions' <= WARNING_EMISSION_THRESHOLD
           \/ /\ emission_warnings = 3
              /\ current_emissions' <= SEVERE_EMISSION_THRESHOLD)
          => /\ emission_warnings' = emission_warnings
             /\ fines' = fines
             /\ budget' = BudgetAfterPurchase]_vars

\* an accepted call that brought the emissions back to the warning threshold
\* or below it after warnings had been given
C22_Witness ==
    /\ last_return = "True"
    /\ game_state = "playing"
    /\ emission_warnings \in {1, 2, 3}
    /\ current_emissions <= WARNING_EMISSION_THRESHOLD

\* C23: the halt charges no fine: an accepted call that takes the stage from
\* 0, 1, 2 or 3 to 4 changes the budget by the refund and the cost of the
\* option only.
C23_HaltChargesNoFine ==
    [][(/\ last_return' = "True"
        /\ emission_warnings < 4
        /\ emission_warnings' = 4)
          => /\ fines' = fines
             /\ budget' = BudgetAfterPurchase]_vars

\* a halt from a stage below 2: neither fine was ever charged
C23_Witness ==
    /\ last_return = "True"
    /\ emission_warnings = 4
    /\ game_state = "game_over"
    /\ fines = <<>>
    /\ current_emissions > SEVERE_EMISSION_THRESHOLD
    /\ budget = start_budget - CostFrom(player_choices, 1)

\* the outcome of the first terminal condition that holds, in the order
\* excessive emissions, unhappy customers, bankrupt, success
FirstOutcome ==
    IF current_emissions > MAX_EMISSION_THRESHOLD
    THEN <<"Game Over: Excessive Emissions!">>
    ELSE IF current_happiness < MIN_HAPPINESS_THRESHOLD
    THEN <<"Game Over: Unhappy Customers!", current_happiness>>
    ELSE IF budget < 0
    THEN <<"Game Over: Bankrupt!">>
    ELSE TierMessage

\* C24: when the termination check runs, which it does after the accepted
\* call that fills the last slot, the outcome is that of the first condition
\* that holds in the order excessive emissions, unhappy customers, bankrupt,
\* success: all slots filled with emissions above the maximum is never a
\* success.
C24_FirstTerminalConditionWins ==
    (last_return = "True" /\ Cardinality(FilledSlots) = Len(Slots))
        => /\ game_state = "game_over"
           /\ info_message = FirstOutcome
           /\ (current_emissions > MAX_EMISSION_THRESHOLD
                  => info_message \notin SuccessMessages)

\* the call that filled the last slot and took the emissions above the maximum
C24_Witness ==
    /\ last_return = "True"
    /\ Cardinality(FilledSlots) = Len(Slots)
    /\ current_emissions > MAX_EMISSION_THRESHOLD
    /\ game_state = "game_over"
    /\ info_message = <<"Game Over: Excessive Emissions!">>

\* C25: a call whose identifiers resolve is accepted exactly when the cost of
\* the option is at most the budget as it stands before the call; the refund
\* of the option the slot holds is not counted.  Stated on the calls that
\* the clicks of a running game make.
C25_AcceptedIffCostWithinBudget ==
    \A b \in Clicked :
        (game_state = "playing" /\ resolves(b[1], b[2], Passed(b)))
            => (Accepted(ClickOption(Self, b[1], b[2], b[3]))
                   <=> processes[b[1]][b[2]][Passed(b)].cost <= budget)

\* a rejected replacement that the budget after the refund of the option in
\* the slot would have covered
C25_Witness ==
    /\ last_return = "False"
    /\ info_message[1] = "Not enough budget"
    /\ \E b \in Clicked :
          /\ b[3] = info_message[2]
          /\ player_choices[b[1]][b[2]] # None
          /\ player_choices[b[1]][b[2]] # b[3]
          /\ processes[b[1]][b[2]][b[3]].cost > budget
          /\ processes[b[1]][b[2]][b[3]].cost <=
                 budget + processes[b[1]][b[2]][player_choices[b[1]][b[2]]].cost

\* C26: the budget is never negative, after a purchase and after a fine
\* alike, and the game never ends bankrupt.
C26_BudgetNeverNegative ==
    /\ budget >= 0
    /\ info_message[1] # "Game Over: Bankrupt!"

\* an accepted call that was charged a fine and left less than the cheapest
\* option of the catalog costs
C26_Witness ==
    /\ last_return = "True"
    /\ Len(fines) >= 1
    /\ budget < 300

\* C27: in every reachable state the budget, the costs of the options the
\* slots hold and the fines charged in the session add up to the budget
\* drawn at the start of the session.
C27_BudgetConservation ==
    budget + CostFrom(player_choices, 1) + FineTotal(fines) = start_budget

\* a state left by a rejected call in a session that was charged both fines
C27_Witness ==
    /\ last_return = "False"
    /\ Len(fines) = 2
    /\ Cardinality(FilledSlots) >= 3
    /\ budget < start_budget - CostFrom(player_choices, 1)

\* C28: the thresholds are ordered warning <= severe <= maximum; while the
\* game is running the warning stage is at most 3 and the emissions are at
\* most the severe threshold; at stage 4 the game is over.
C28_NoPlayAboveSevere ==
    /\ WARNING_EMISSION_THRESHOLD <= SEVERE_EMISSION_THRESHOLD
    /\ SEVERE_EMISSION_THRESHOLD <= MAX_EMISSION_THRESHOLD
    /\ game_state = "playing" =>
          /\ emission_warnings <= 3
          /\ current_emissions <= SEVERE_EMISSION_THRESHOLD
    /\ emission_warnings = 4 => game_state = "game_over"

\* a running game at stage 3 whose emissions were above the warning threshold
\* and have been brought back below it
C28_Witness ==
    /\ game_state = "playing"
    /\ emission_warnings = 3
    /\ current_emissions > 0
    /\ current_emissions <= WARNING_EMISSION_THRESHOLD

\* C29: every option of the catalog has a happiness value between 2 and 5,
\* the happiness is at least 40 whenever a slot holds an option, and the game
\* never ends with unhappy customers.
C29_HappinessAtLeastForty ==
    /\ \A p \in DOMAIN processes : \A q \in DOMAIN processes[p] :
          \A o \in DOMAIN processes[p][q] : processes[p][q][o].happiness \in 2..5
    /\ FilledSlots # {} => current_happiness >= MIN_HAPPINESS_THRESHOLD
    /\ info_message[1] # "Game Over: Unhappy Customers!"

\* an accepted call that left the happiness at the minimum
C29_Witness ==
    /\ last_return = "True"
    /\ FilledSlots # {}
    /\ current_happiness = MIN_HAPPINESS_THRESHOLD

====
